---- MODULE Spec2Model ----
(***************************************************************************)
(* Model of AudioProcessingImpl, the orchestration engine of the audio     *)
(* processing module                                                       *)
(* (src/src/modules/audio_processing/main/source/audio_processing_impl.cc).*)
(*                                                                         *)
(* The engine object is the record `apm`, whose fields carry the names of  *)
(* the C++ members.  Every public operation is an operator that maps the   *)
(* engine (and its inputs) to the engine after the call, the value         *)
(* returned and the ordered list of calls made on the collaborators        *)
(* (AudioBuffer, the splitting filter, the seven components, the debug     *)
(* file); the actions of Spec apply these operators atomically.  SpecConc  *)
(* runs the same code statement by statement on two threads.               *)
(***************************************************************************)
EXTENDS Integers, Sequences, FiniteSets, TLC

VARIABLES
    phase,       \* "constructed" | "live" | "deleted"  (AudioProcessing::Create)
    apm,         \* the members of AudioProcessingImpl
    is_enabled,  \* is_enabled() of echo_control_mobile_ and noise_suppression_
    debug_file,  \* debug_file_: [open, data]
    op,          \* name of the last public operation executed
    ret,         \* its return value
    calls,       \* the calls it made on its collaborators, in order
    args,        \* its arguments, and the results its callees gave
    frame,       \* the same AudioFrame when the call returned
    ncalls,      \* number of calls made on the instance so far
    pc,          \* SpecConc: position of each thread in its operation
    crit,        \* SpecConc: owner of crit_ (0 when free)
    arg,         \* SpecConc: argument of each thread's operation
    local        \* SpecConc: return value of each thread's finished operation

vars == <<phase, apm, is_enabled, debug_file, op, args, ret, calls, frame,
          ncalls, pc, crit, arg, local>>

seqvars == <<phase, apm, is_enabled, debug_file, op, args, ret, calls, frame,
            ncalls>>
concvars == <<pc, crit, arg, local>>

----------------------------------------------------------------------------
(* Error kinds (AudioProcessing::Errors) and sample rates.                 *)

kNoError == "kNoError"
kUnspecifiedError == "kUnspecifiedError"
kNullPointerError == "kNullPointerError"
kBadParameterError == "kBadParameterError"
kBadSampleRateError == "kBadSampleRateError"
kBadDataLengthError == "kBadDataLengthError"
kBadNumberChannelsError == "kBadNumberChannelsError"
kFileError == "kFileError"
kStreamParameterNotSetError == "kStreamParameterNotSetError"
kBadStreamParameterWarning == "kBadStreamParameterWarning"

kSampleRate8kHz == 8000
kSampleRate16kHz == 16000
kSampleRate32kHz == 32000

\* enum Events
kInitializeEvent == 0
kRenderEvent == 1
kCaptureEvent == 2

kMagicNumber == "#!vqetrace1.2"

\* A null pointer (a record, like the objects pointers point to).
NULL == [null |-> TRUE]

----------------------------------------------------------------------------
(* Bounds of the model.                                                    *)

\* Largest number of items the debug file holds; a stream call that would
\* have to write beyond it is not taken.
MaxTraceLen == 13

\* Number of calls made on one instance after its creation.
MaxCalls == 3

\* Requested stream delays run from -1 to kMaxDelay + MaxDelayExcess.
MaxDelayExcess == 1

\* Largest capacity (bytes_remaining) and largest start position a caller
\* of Version passes.
MaxCapacity == 42
MaxPosition == 1

----------------------------------------------------------------------------
(* Inputs.                                                                 *)

\* Error codes a component may return besides kNoError.
ComponentErrors == {kUnspecifiedError, kStreamParameterNotSetError}

ComponentResults == {kNoError} \cup ComponentErrors

\* component_list_ with noise_suppression registered before level_estimator.
component_list_NsBeforeLevel ==
    << "echo_cancellation", "echo_control_mobile", "gain_control",
       "high_pass_filter", "noise_suppression", "level_estimator",
       "voice_detection" >>

\* component_list_, in registration order (constructor).
component_list ==
    << "echo_cancellation", "echo_control_mobile", "gain_control",
       "high_pass_filter", "level_estimator", "noise_suppression",
       "voice_detection" >>

Range(s) == {s[i] : i \in DOMAIN s}

\* The error the i-th callee of a list returns when it fails: neighbours
\* fail with different errors.
ErrorOf(i) ==
    IF i % 2 = 1 THEN kUnspecifiedError ELSE kStreamParameterNotSetError

\* The results the callees named in `stages` give when called: none fails,
\* or one of them does.  A callee after the first failing one is never
\* called, so its result is fixed to kNoError: one representative of every
\* class of results the code can tell apart.
Outcomes(stages) ==
    { [c \in Range(stages) |-> kNoError] } \cup
    { [c \in Range(stages) |-> IF c = stages[i] THEN ErrorOf(i) ELSE kNoError] :
        i \in DOMAIN stages }

\* Sample rates a caller may ask for: the three supported ones and one
\* that is not.
RateInputs == {kSampleRate8kHz, kSampleRate16kHz, kSampleRate32kHz, 48000}

ChannelInputs == 0 .. 3

\* The frames a caller may hand in: NULL, or a frame with any rate,
\* channel count and length of a 10 ms frame.
Frames ==
    [ _frequencyInHz : {kSampleRate8kHz, kSampleRate16kHz, kSampleRate32kHz},
      _audioChannel : {1, 2},
      _payloadDataLengthInSamples : {80, 160, 320},
      _payloadData : {"pcm"} ]

FrameInputs == Frames \cup {NULL}

----------------------------------------------------------------------------
(* AudioBuffer, as the engine uses it.                                     *)

\* new AudioBuffer(max_num_channels, samples_per_channel)
NewAudioBuffer(channels, samples) ==
    [ max_num_channels |-> channels,
      samples_per_channel |-> samples,
      num_channels |-> channels,
      data |-> "none",
      analysis_filter_state |-> "zero",
      synthesis_filter_state |-> "zero" ]

----------------------------------------------------------------------------
(* Construction.                                                           *)

\* AudioProcessingImpl::AudioProcessingImpl
Constructed ==
    [ id_ |-> 0,
      sample_rate_hz_ |-> kSampleRate16kHz,
      split_sample_rate_hz_ |-> kSampleRate16kHz,
      samples_per_channel_ |-> kSampleRate16kHz \div 100,
      stream_delay_ms_ |-> 0,
      was_stream_delay_set_ |-> FALSE,
      num_render_input_channels_ |-> 1,
      num_capture_input_channels_ |-> 1,
      num_capture_output_channels_ |-> 1,
      render_audio_ |-> NULL,
      capture_audio_ |-> NULL ]

----------------------------------------------------------------------------
(* Initialize.                                                             *)

\* The loop of InitializeLocked over component_list_: stops at the first
\* component whose Initialize() does not return kNoError.
RECURSIVE InitializeComponents(_, _, _)
InitializeComponents(list, res, log) ==
    IF list = << >>
    THEN [err |-> kNoError, calls |-> log]
    ELSE LET c == Head(list)
             err == res[c]
             log1 == Append(log, <<c, "Initialize">>)
         IN IF err # kNoError
            THEN [err |-> err, calls |-> log1]
            ELSE InitializeComponents(Tail(list), res, log1)

\* InitializeLocked without `was_stream_delay_set_ = false`.
InitializeLocked_KeepsFlag(a, res) ==
    LET a1 == [a EXCEPT
                 !.render_audio_ =
                     NewAudioBuffer(a.num_render_input_channels_,
                                    a.samples_per_channel_),
                 !.capture_audio_ =
                     NewAudioBuffer(a.num_capture_input_channels_,
                                    a.samples_per_channel_)]
        r == InitializeComponents(component_list, res,
                 << <<"render_audio", "new">>, <<"capture_audio", "new">> >>)
    IN [apm |-> a1, ret |-> r.err, calls |-> r.calls]

\* AudioProcessingImpl::InitializeLocked
InitializeLocked(a, res) ==
    LET a1 == [a EXCEPT
                 !.render_audio_ =
                     NewAudioBuffer(a.num_render_input_channels_,
                                    a.samples_per_channel_),
                 !.capture_audio_ =
                     NewAudioBuffer(a.num_capture_input_channels_,
                                    a.samples_per_channel_),
                 !.was_stream_delay_set_ = FALSE]
        r == InitializeComponents(component_list, res,
                 << <<"render_audio", "new">>, <<"capture_audio", "new">> >>)
    IN [apm |-> a1, ret |-> r.err, calls |-> r.calls]

----------------------------------------------------------------------------
(* Configuration setters.                                                  *)

Rejected(a, code) == [apm |-> a, ret |-> code, calls |-> << >>]

\* set_sample_rate_hz with the 32 kHz case of the split rate left out.
set_sample_rate_hz_SplitIsRate(a, rate, res) ==
    IF rate # kSampleRate8kHz /\ rate # kSampleRate16kHz
            /\ rate # kSampleRate32kHz
    THEN Rejected(a, kBadParameterError)
    ELSE InitializeLocked([a EXCEPT !.sample_rate_hz_ = rate,
                                    !.samples_per_channel_ = rate \div 100,
                                    !.split_sample_rate_hz_ = rate], res)

\* AudioProcessingImpl::set_sample_rate_hz
set_sample_rate_hz(a, rate, res) ==
    IF rate # kSampleRate8kHz /\ rate # kSampleRate16kHz
            /\ rate # kSampleRate32kHz
    THEN Rejected(a, kBadParameterError)
    ELSE LET a1 == [a EXCEPT !.sample_rate_hz_ = rate,
                             !.samples_per_channel_ = rate \div 100]
             a2 == IF a1.sample_rate_hz_ = kSampleRate32kHz
                   THEN [a1 EXCEPT !.split_sample_rate_hz_ = kSampleRate16kHz]
                   ELSE [a1 EXCEPT !.split_sample_rate_hz_ = a1.sample_rate_hz_]
         IN InitializeLocked(a2, res)

\* set_num_reverse_channels with the lower bound left out.
set_num_reverse_channels_NoLowerBound(a, channels, res) ==
    IF channels > 2
    THEN Rejected(a, kBadParameterError)
    ELSE InitializeLocked([a EXCEPT !.num_render_input_channels_ = channels],
                          res)

\* AudioProcessingImpl::set_num_reverse_channels
set_num_reverse_channels(a, channels, res) ==
    IF channels > 2 \/ channels < 1
    THEN Rejected(a, kBadParameterError)
    ELSE InitializeLocked([a EXCEPT !.num_render_input_channels_ = channels],
                          res)

\* set_num_channels with the output_channels > input_channels test left out.
set_num_channels_NoOrderCheck(a, input_channels, output_channels, res) ==
    IF input_channels > 2 \/ input_channels < 1
    THEN Rejected(a, kBadParameterError)
    ELSE IF output_channels > 2 \/ output_channels < 1
    THEN Rejected(a, kBadParameterError)
    ELSE InitializeLocked(
             [a EXCEPT !.num_capture_input_channels_ = input_channels,
                       !.num_capture_output_channels_ = output_channels],
             res)

\* AudioProcessingImpl::set_num_channels
set_num_channels(a, input_channels, output_channels, res) ==
    IF output_channels > input_channels
    THEN Rejected(a, kBadParameterError)
    ELSE IF input_channels > 2 \/ input_channels < 1
    THEN Rejected(a, kBadParameterError)
    ELSE IF output_channels > 2 \/ output_channels < 1
    THEN Rejected(a, kBadParameterError)
    ELSE InitializeLocked(
             [a EXCEPT !.num_capture_input_channels_ = input_channels,
                       !.num_capture_output_channels_ = output_channels],
             res)

----------------------------------------------------------------------------
(* Stream delay.                                                           *)

\* The largest delay set_stream_delay_ms stores.
kMaxDelay == 500

\* set_stream_delay_ms storing delays above the maximum as they are.
set_stream_delay_ms_NoClamp(a, delay) ==
    LET a1 == [a EXCEPT !.was_stream_delay_set_ = TRUE]
    IN IF delay < 0
       THEN [apm |-> a1, ret |-> kBadParameterError, calls |-> << >>]
       ELSE IF delay > kMaxDelay
       THEN [apm |-> [a1 EXCEPT !.stream_delay_ms_ = delay],
             ret |-> kBadStreamParameterWarning, calls |-> << >>]
       ELSE [apm |-> [a1 EXCEPT !.stream_delay_ms_ = delay],
             ret |-> kNoError, calls |-> << >>]

\* set_stream_delay_ms storing a negative delay before it rejects it.
set_stream_delay_ms_StoresNegative(a, delay) ==
    LET a1 == [a EXCEPT !.was_stream_delay_set_ = TRUE]
    IN IF delay < 0
       THEN [apm |-> [a1 EXCEPT !.stream_delay_ms_ = delay],
             ret |-> kBadParameterError, calls |-> << >>]
       ELSE IF delay > kMaxDelay
       THEN [apm |-> [a1 EXCEPT !.stream_delay_ms_ = kMaxDelay],
             ret |-> kBadStreamParameterWarning, calls |-> << >>]
       ELSE [apm |-> [a1 EXCEPT !.stream_delay_ms_ = delay],
             ret |-> kNoError, calls |-> << >>]

\* AudioProcessingImpl::set_stream_delay_ms
set_stream_delay_ms(a, delay) ==
    LET a1 == [a EXCEPT !.was_stream_delay_set_ = TRUE]
    IN IF delay < 0
       THEN [apm |-> a1, ret |-> kBadParameterError, calls |-> << >>]
       ELSE IF delay > kMaxDelay
       THEN [apm |-> [a1 EXCEPT !.stream_delay_ms_ = kMaxDelay],
             ret |-> kBadStreamParameterWarning, calls |-> << >>]
       ELSE [apm |-> [a1 EXCEPT !.stream_delay_ms_ = delay],
             ret |-> kNoError, calls |-> << >>]

\* Delays a caller may ask for.
DelayInputs == {-1, 0, 250, kMaxDelay} \cup
               (kMaxDelay + 1 .. kMaxDelay + MaxDelayExcess)

----------------------------------------------------------------------------
(* The debug file (FileWrapper), as the engine uses it.                    *)

\* FileWrapper::Write, called once per element of `items`: the first `nok`
\* calls succeed and append their item, the next one fails.
RECURSIVE WriteAll(_, _, _)
WriteAll(items, nok, data) ==
    IF items = << >>
    THEN [ok |-> TRUE, data |-> data]
    ELSE IF nok = 0
    THEN [ok |-> FALSE, data |-> data]
    ELSE WriteAll(Tail(items), nok - 1, Append(data, Head(items)))

\* The five writes of one stream event: the tag and the frame's fields.
EventRecord(event, f) ==
    << <<"event", event>>,
       <<"_frequencyInHz", f._frequencyInHz>>,
       <<"_audioChannel", f._audioChannel>>,
       <<"_payloadDataLengthInSamples", f._payloadDataLengthInSamples>>,
       <<"_payloadData", f._payloadData,
         f._payloadDataLengthInSamples * f._audioChannel>> >>

RecordLen == 5

----------------------------------------------------------------------------
(* AudioBuffer and the splitting filter, as the engine uses them.          *)

\* AudioBuffer::DeinterleaveFrom
DeinterleaveFrom(b, f) ==
    [b EXCEPT !.num_channels = f._audioChannel, !.data = f._payloadData]

\* AudioBuffer::Mix
Mix(b, num_mixed_channels) == [b EXCEPT !.num_channels = num_mixed_channels]

\* SplittingFilterAnalysis on one channel: advances the analysis state.
SplittingFilterAnalysis(b) == [b EXCEPT !.analysis_filter_state = "updated"]

\* SplittingFilterSynthesis on one channel: advances the synthesis state.
SplittingFilterSynthesis(b) == [b EXCEPT !.synthesis_filter_state = "updated"]

\* AudioBuffer::InterleaveTo
InterleaveTo(b, f) == [f EXCEPT !._payloadData = "processed"]

\* for (i = 0; i < n; i++) filter(channel i): the calls, in order.
FilterCalls(name, n) == [i \in 1 .. n |-> <<name, ToString(i - 1)>>]

----------------------------------------------------------------------------
(* The stream pipelines.                                                   *)

\* `if (err != kNoError) return err;` after a component call: once a call
\* has failed, nothing after it is executed.
Call(st, stage, res) ==
    IF st.err # kNoError
    THEN st
    ELSE [st EXCEPT !.err = res[stage], !.calls = Append(@, stage)]

\* A statement that cannot fail, executed if no earlier call has failed.
Do(st, entry) ==
    IF st.err # kNoError THEN st ELSE [st EXCEPT !.calls = Append(@, entry)]

CaptureStages ==
    << <<"high_pass_filter", "ProcessCaptureAudio">>,
       <<"gain_control", "AnalyzeCaptureAudio">>,
       <<"echo_cancellation", "ProcessCaptureAudio">>,
       <<"noise_suppression", "ProcessCaptureAudio">>,
       <<"echo_control_mobile", "ProcessCaptureAudio">>,
       <<"voice_detection", "ProcessCaptureAudio">>,
       <<"gain_control", "ProcessCaptureAudio">> >>

RenderStages ==
    << <<"echo_cancellation", "ProcessRenderAudio">>,
       <<"echo_control_mobile", "ProcessRenderAudio">>,
       <<"gain_control", "ProcessRenderAudio">> >>

CopyLowPassToReference == <<"capture_audio", "CopyLowPassToReference">>

\* CaptureComponents with the low-band snapshot taken after noise
\* suppression instead of before it.
CaptureComponents_SnapshotAfterNs(st, en, res) ==
    LET s1 == Call(st, <<"high_pass_filter", "ProcessCaptureAudio">>, res)
        s2 == Call(s1, <<"gain_control", "AnalyzeCaptureAudio">>, res)
        s3 == Call(s2, <<"echo_cancellation", "ProcessCaptureAudio">>, res)
        s4 == Call(s3, <<"noise_suppression", "ProcessCaptureAudio">>, res)
        s5 == IF en["echo_control_mobile"] /\ en["noise_suppression"]
              THEN Do(s4, CopyLowPassToReference)
              ELSE s4
        s6 == Call(s5, <<"echo_control_mobile", "ProcessCaptureAudio">>, res)
        s7 == Call(s6, <<"voice_detection", "ProcessCaptureAudio">>, res)
        s8 == Call(s7, <<"gain_control", "ProcessCaptureAudio">>, res)
    IN s8

\* The component calls of ProcessStream, from high_pass_filter_ to the
\* second gain_control_ call.
CaptureComponents(st, en, res) ==
    LET s1 == Call(st, <<"high_pass_filter", "ProcessCaptureAudio">>, res)
        s2 == Call(s1, <<"gain_control", "AnalyzeCaptureAudio">>, res)
        s3 == Call(s2, <<"echo_cancellation", "ProcessCaptureAudio">>, res)
        s4 == IF en["echo_control_mobile"] /\ en["noise_suppression"]
              THEN Do(s3, CopyLowPassToReference)
              ELSE s3
        s5 == Call(s4, <<"noise_suppression", "ProcessCaptureAudio">>, res)
        s6 == Call(s5, <<"echo_control_mobile", "ProcessCaptureAudio">>, res)
        s7 == Call(s6, <<"voice_detection", "ProcessCaptureAudio">>, res)
        s8 == Call(s7, <<"gain_control", "ProcessCaptureAudio">>, res)
    IN s8

\* The component calls of AnalyzeReverseStream.
RenderComponents(st, res) ==
    LET s1 == Call(st, <<"echo_cancellation", "ProcessRenderAudio">>, res)
        s2 == Call(s1, <<"echo_control_mobile", "ProcessRenderAudio">>, res)
        s3 == Call(s2, <<"gain_control", "ProcessRenderAudio">>, res)
    IN s3

StreamRejected(a, df, f, code) ==
    [apm |-> a, debug_file |-> df, frame |-> f, ret |-> code, calls |-> << >>]

\* ProcessCapture writing the reduced channel count to the frame only when
\* the call succeeds.
ProcessCapture_ChannelCountOnSuccess(a, df, en, f, res) ==
    LET b1 == DeinterleaveFrom(a.capture_audio_, f)
        log1 == << <<"capture_audio", "DeinterleaveFrom">> >>
        mix == a.num_capture_output_channels_ < a.num_capture_input_channels_
        b2 == IF mix THEN Mix(b1, a.num_capture_output_channels_) ELSE b1
        f2 == IF mix
              THEN [f EXCEPT !._audioChannel = a.num_capture_output_channels_]
              ELSE f
        log2 == IF mix
                THEN Append(log1, <<"capture_audio", "Mix">>)
                ELSE log1
        split == a.sample_rate_hz_ = kSampleRate32kHz
        b3 == IF split THEN SplittingFilterAnalysis(b2) ELSE b2
        log3 == IF split
                THEN log2 \o FilterCalls("SplittingFilterAnalysis",
                                         a.num_capture_input_channels_)
                ELSE log2
        s == CaptureComponents([err |-> kNoError, calls |-> log3], en, res)
    IN IF s.err # kNoError
       THEN [apm |-> [a EXCEPT !.capture_audio_ = b3], debug_file |-> df,
             frame |-> f, ret |-> s.err, calls |-> s.calls]
       ELSE LET b4 == IF split THEN SplittingFilterSynthesis(b3) ELSE b3
                log4 == IF split
                        THEN s.calls \o
                             FilterCalls("SplittingFilterSynthesis",
                                         a.num_capture_output_channels_)
                        ELSE s.calls
            IN [apm |-> [a EXCEPT !.capture_audio_ = b4], debug_file |-> df,
                frame |-> InterleaveTo(b4, f2), ret |-> kNoError,
                calls |-> Append(log4, <<"capture_audio", "InterleaveTo">>)]

\* ProcessStream from DeinterleaveFrom on (the frame is valid and traced).
ProcessCapture(a, df, en, f, res) ==
    LET b1 == DeinterleaveFrom(a.capture_audio_, f)
        log1 == << <<"capture_audio", "DeinterleaveFrom">> >>
        mix == a.num_capture_output_channels_ < a.num_capture_input_channels_
        b2 == IF mix THEN Mix(b1, a.num_capture_output_channels_) ELSE b1
        f2 == IF mix
              THEN [f EXCEPT !._audioChannel = a.num_capture_output_channels_]
              ELSE f
        log2 == IF mix
                THEN Append(log1, <<"capture_audio", "Mix">>)
                ELSE log1
        split == a.sample_rate_hz_ = kSampleRate32kHz
        b3 == IF split THEN SplittingFilterAnalysis(b2) ELSE b2
        log3 == IF split
                THEN log2 \o FilterCalls("SplittingFilterAnalysis",
                                         a.num_capture_input_channels_)
                ELSE log2
        s == CaptureComponents([err |-> kNoError, calls |-> log3], en, res)
    IN IF s.err # kNoError
       THEN [apm |-> [a EXCEPT !.capture_audio_ = b3], debug_file |-> df,
             frame |-> f2, ret |-> s.err, calls |-> s.calls]
       ELSE LET b4 == IF split THEN SplittingFilterSynthesis(b3) ELSE b3
                log4 == IF split
                        THEN s.calls \o
                             FilterCalls("SplittingFilterSynthesis",
                                         a.num_capture_output_channels_)
                        ELSE s.calls
            IN [apm |-> [a EXCEPT !.capture_audio_ = b4], debug_file |-> df,
                frame |-> InterleaveTo(b4, f2), ret |-> kNoError,
                calls |-> Append(log4, <<"capture_audio", "InterleaveTo">>)]

\* ProcessStream going on with the frame after a failed write to the debug
\* file.
ProcessStream_IgnoresWriteFailure(a, df, en, f, nok, res) ==
    IF f = NULL
    THEN StreamRejected(a, df, f, kNullPointerError)
    ELSE IF f._frequencyInHz # a.sample_rate_hz_
    THEN StreamRejected(a, df, f, kBadSampleRateError)
    ELSE IF f._audioChannel # a.num_capture_input_channels_
    THEN StreamRejected(a, df, f, kBadNumberChannelsError)
    ELSE IF f._payloadDataLengthInSamples # a.samples_per_channel_
    THEN StreamRejected(a, df, f, kBadDataLengthError)
    ELSE LET w == IF df.open
                  THEN WriteAll(EventRecord(kCaptureEvent, f), nok, df.data)
                  ELSE [ok |-> TRUE, data |-> df.data]
             df1 == [df EXCEPT !.data = w.data]
         IN ProcessCapture(a, df1, en, f, res)

\* ProcessStream with the test of the frame's length left out.
ProcessStream_NoLengthCheck(a, df, en, f, nok, res) ==
    IF f = NULL
    THEN StreamRejected(a, df, f, kNullPointerError)
    ELSE IF f._frequencyInHz # a.sample_rate_hz_
    THEN StreamRejected(a, df, f, kBadSampleRateError)
    ELSE IF f._audioChannel # a.num_capture_input_channels_
    THEN StreamRejected(a, df, f, kBadNumberChannelsError)
    ELSE LET w == IF df.open
                  THEN WriteAll(EventRecord(kCaptureEvent, f), nok, df.data)
                  ELSE [ok |-> TRUE, data |-> df.data]
             df1 == [df EXCEPT !.data = w.data]
         IN IF ~w.ok
            THEN StreamRejected(a, df1, f, kFileError)
            ELSE ProcessCapture(a, df1, en, f, res)

\* AudioProcessingImpl::ProcessStream
ProcessStream(a, df, en, f, nok, res) ==
    IF f = NULL
    THEN StreamRejected(a, df, f, kNullPointerError)
    ELSE IF f._frequencyInHz # a.sample_rate_hz_
    THEN StreamRejected(a, df, f, kBadSampleRateError)
    ELSE IF f._audioChannel # a.num_capture_input_channels_
    THEN StreamRejected(a, df, f, kBadNumberChannelsError)
    ELSE IF f._payloadDataLengthInSamples # a.samples_per_channel_
    THEN StreamRejected(a, df, f, kBadDataLengthError)
    ELSE LET w == IF df.open
                  THEN WriteAll(EventRecord(kCaptureEvent, f), nok, df.data)
                  ELSE [ok |-> TRUE, data |-> df.data]
             df1 == [df EXCEPT !.data = w.data]
         IN IF ~w.ok
            THEN StreamRejected(a, df1, f, kFileError)
            ELSE ProcessCapture(a, df1, en, f, res)

\* RenderPipeline splitting into sub-bands at 16 kHz as well.
RenderPipeline_SplitsAt16kHz(a, f, res) ==
    LET b1 == DeinterleaveFrom(a.render_audio_, f)
        log1 == << <<"render_audio", "DeinterleaveFrom">> >>
        split == a.sample_rate_hz_ \in {kSampleRate16kHz, kSampleRate32kHz}
        b2 == IF split THEN SplittingFilterAnalysis(b1) ELSE b1
        log2 == IF split
                THEN log1 \o FilterCalls("SplittingFilterAnalysis",
                                         a.num_render_input_channels_)
                ELSE log1
        s == RenderComponents([err |-> kNoError, calls |-> log2], res)
    IN [apm |-> [a EXCEPT !.render_audio_ = b2], err |-> s.err,
        calls |-> s.calls]

\* AnalyzeReverseStream from DeinterleaveFrom to the last component call.
RenderPipeline(a, f, res) ==
    LET b1 == DeinterleaveFrom(a.render_audio_, f)
        log1 == << <<"render_audio", "DeinterleaveFrom">> >>
        split == a.sample_rate_hz_ = kSampleRate32kHz
        b2 == IF split THEN SplittingFilterAnalysis(b1) ELSE b1
        log2 == IF split
                THEN log1 \o FilterCalls("SplittingFilterAnalysis",
                                         a.num_render_input_channels_)
                ELSE log1
        s == RenderComponents([err |-> kNoError, calls |-> log2], res)
    IN [apm |-> [a EXCEPT !.render_audio_ = b2], err |-> s.err,
        calls |-> s.calls]

\* AnalyzeRender clearing was_stream_delay_set_ also when a component fails.
AnalyzeRender_ClearsFlagOnError(a, df, f, res) ==
    LET p == RenderPipeline(a, f, res)
    IN [apm |-> [p.apm EXCEPT !.was_stream_delay_set_ = FALSE],
        debug_file |-> df, frame |-> f, ret |-> p.err, calls |-> p.calls]

\* AnalyzeReverseStream from DeinterleaveFrom on.
AnalyzeRender(a, df, f, res) ==
    LET p == RenderPipeline(a, f, res)
    IN IF p.err # kNoError
       THEN [apm |-> p.apm, debug_file |-> df, frame |-> f, ret |-> p.err,
             calls |-> p.calls]
       ELSE [apm |-> [p.apm EXCEPT !.was_stream_delay_set_ = FALSE],
             debug_file |-> df, frame |-> f, ret |-> p.err,
             calls |-> p.calls]

\* AnalyzeReverseStream leaving its record in the debug file only when the
\* components succeed.
AnalyzeReverseStream_TraceOnSuccess(a, df, f, nok, res) ==
    IF f = NULL
    THEN StreamRejected(a, df, f, kNullPointerError)
    ELSE IF f._frequencyInHz # a.sample_rate_hz_
    THEN StreamRejected(a, df, f, kBadSampleRateError)
    ELSE IF f._audioChannel # a.num_render_input_channels_
    THEN StreamRejected(a, df, f, kBadNumberChannelsError)
    ELSE IF f._payloadDataLengthInSamples # a.samples_per_channel_
    THEN StreamRejected(a, df, f, kBadDataLengthError)
    ELSE LET w == IF df.open
                  THEN WriteAll(EventRecord(kRenderEvent, f), nok, df.data)
                  ELSE [ok |-> TRUE, data |-> df.data]
             df1 == [df EXCEPT !.data = w.data]
             r == AnalyzeRender(a, df1, f, res)
         IN IF ~w.ok
            THEN StreamRejected(a, df1, f, kFileError)
            ELSE IF r.ret # kNoError
            THEN [r EXCEPT !.debug_file = df]
            ELSE r

\* AnalyzeReverseStream writing the tag of a capture event.
AnalyzeReverseStream_CaptureTag(a, df, f, nok, res) ==
    IF f = NULL
    THEN StreamRejected(a, df, f, kNullPointerError)
    ELSE IF f._frequencyInHz # a.sample_rate_hz_
    THEN StreamRejected(a, df, f, kBadSampleRateError)
    ELSE IF f._audioChannel # a.num_render_input_channels_
    THEN StreamRejected(a, df, f, kBadNumberChannelsError)
    ELSE IF f._payloadDataLengthInSamples # a.samples_per_channel_
    THEN StreamRejected(a, df, f, kBadDataLengthError)
    ELSE LET w == IF df.open
                  THEN WriteAll(EventRecord(kCaptureEvent, f), nok, df.data)
                  ELSE [ok |-> TRUE, data |-> df.data]
             df1 == [df EXCEPT !.data = w.data]
         IN IF ~w.ok
            THEN StreamRejected(a, df1, f, kFileError)
            ELSE AnalyzeRender(a, df1, f, res)

\* AudioProcessingImpl::AnalyzeReverseStream
AnalyzeReverseStream(a, df, f, nok, res) ==
    IF f = NULL
    THEN StreamRejected(a, df, f, kNullPointerError)
    ELSE IF f._frequencyInHz # a.sample_rate_hz_
    THEN StreamRejected(a, df, f, kBadSampleRateError)
    ELSE IF f._audioChannel # a.num_render_input_channels_
    THEN StreamRejected(a, df, f, kBadNumberChannelsError)
    ELSE IF f._payloadDataLengthInSamples # a.samples_per_channel_
    THEN StreamRejected(a, df, f, kBadDataLengthError)
    ELSE LET w == IF df.open
                  THEN WriteAll(EventRecord(kRenderEvent, f), nok, df.data)
                  ELSE [ok |-> TRUE, data |-> df.data]
             df1 == [df EXCEPT !.data = w.data]
         IN IF ~w.ok
            THEN StreamRejected(a, df1, f, kFileError)
            ELSE AnalyzeRender(a, df1, f, res)

----------------------------------------------------------------------------
(* Debug recording.                                                        *)

\* The I/O call of the debug file that fails during a call, if any.
IoFailures == {"none", "CloseFile", "OpenFile", "WriteText", "Write_event",
               "Write_rate"}

Filenames == {NULL, [name |-> "apm_debug.dat"]}

\* StartDebugRecording closing the file after every failed write.
StartDebugRecording_ClosesOnWriteFailure(a, df, filename, fail) ==
    IF filename = NULL
    THEN [debug_file |-> df, ret |-> kNullPointerError]
    ELSE IF df.open /\ fail = "CloseFile"
    THEN [debug_file |-> df, ret |-> kFileError]
    ELSE IF fail = "OpenFile"
    THEN [debug_file |-> [df EXCEPT !.open = FALSE], ret |-> kFileError]
    ELSE IF fail = "WriteText"
    THEN [debug_file |-> [open |-> FALSE, data |-> << >>],
          ret |-> kFileError]
    ELSE LET d1 == << <<"magic", kMagicNumber>> >>
             d2 == Append(d1, <<"event", kInitializeEvent>>)
             d3 == Append(d2, <<"sample_rate_hz_", a.sample_rate_hz_>>)
         IN IF fail = "Write_event"
            THEN [debug_file |-> [open |-> FALSE, data |-> d1],
                  ret |-> kFileError]
            ELSE IF fail = "Write_rate"
            THEN [debug_file |-> [open |-> FALSE, data |-> d2],
                  ret |-> kFileError]
            ELSE [debug_file |-> [open |-> TRUE, data |-> d3],
                  ret |-> kNoError]

\* AudioProcessingImpl::StartDebugRecording
StartDebugRecording(a, df, filename, fail) ==
    IF filename = NULL
    THEN [debug_file |-> df, ret |-> kNullPointerError]
    ELSE IF df.open /\ fail = "CloseFile"
    THEN [debug_file |-> df, ret |-> kFileError]
    ELSE IF fail = "OpenFile"
    THEN [debug_file |-> [df EXCEPT !.open = FALSE], ret |-> kFileError]
    ELSE IF fail = "WriteText"
    THEN [debug_file |-> [open |-> FALSE, data |-> << >>],
          ret |-> kFileError]
    ELSE LET d1 == << <<"magic", kMagicNumber>> >>
             d2 == Append(d1, <<"event", kInitializeEvent>>)
             d3 == Append(d2, <<"sample_rate_hz_", a.sample_rate_hz_>>)
         IN IF fail = "Write_event"
            THEN [debug_file |-> [open |-> TRUE, data |-> d1],
                  ret |-> kFileError]
            ELSE IF fail = "Write_rate"
            THEN [debug_file |-> [open |-> TRUE, data |-> d2],
                  ret |-> kFileError]
            ELSE [debug_file |-> [open |-> TRUE, data |-> d3],
                  ret |-> kNoError]

\* AudioProcessingImpl::StopDebugRecording
StopDebugRecording(df, fail) ==
    IF df.open /\ fail = "CloseFile"
    THEN [debug_file |-> df, ret |-> kFileError]
    ELSE [debug_file |-> [df EXCEPT !.open = FALSE], ret |-> kNoError]

----------------------------------------------------------------------------
(* Version.  A string is the sequence of its bytes; the caller's buffer    *)
(* has position + bytes_remaining bytes, byte i at bytes[i + 1].           *)

\* WebRtc_Word8 my_version[] = "AudioProcessing 1.0.0"
my_version ==
    <<"A", "u", "d", "i", "o", "P", "r", "o", "c", "e", "s", "s", "i", "n",
      "g", " ", "1", ".", "0", ".", "0">>

\* The zero byte, and a byte the caller's buffer holds before the call.
Zero == "NUL"
Stale == "?"

\* strlen
strlen(str) == Len(str)

\* The version the i-th component reports when it reports one: neighbours
\* report versions of different lengths.
ComponentVersion(i) == IF i % 2 = 1 THEN <<"1">> ELSE <<"2", ".", "0">>

\* What get_version of every component leaves in the buffer it is given:
\* nothing, or the component's version.
VersionInputs ==
    { [c \in Range(component_list) |->
         IF c \in nonempty
         THEN ComponentVersion(CHOOSE i \in DOMAIN component_list :
                                  component_list[i] = c)
         ELSE << >>] : nonempty \in SUBSET Range(component_list) }

\* memset(&version[position], 0, n) and memcpy(&version[position], src, n):
\* the bytes written are recorded by index; a write at an index the buffer
\* does not have leaves the buffer as it is.
memset(st, n) ==
    [st EXCEPT
       !.version.bytes =
           [i \in DOMAIN st.version.bytes |->
              IF i - 1 \in st.position .. st.position + n - 1
              THEN Zero ELSE st.version.bytes[i]],
       !.writes = @ \cup (st.position .. st.position + n - 1)]

memcpy(st, src, n) ==
    [st EXCEPT
       !.version.bytes =
           [i \in DOMAIN st.version.bytes |->
              IF i - 1 \in st.position .. st.position + n - 1
              THEN src[i - st.position] ELSE st.version.bytes[i]],
       !.writes = @ \cup (st.position .. st.position + n - 1)]

\* bytes_remaining -= length; position += length
Advance(st, length) ==
    [st EXCEPT !.bytes_remaining = @ - length, !.position = @ + length]

\* The loop of Version over component_list_.
RECURSIVE VersionComponents(_, _, _, _)
VersionComponents(list, st, versions, res) ==
    IF list = << >>
    THEN [st EXCEPT !.ret = kNoError]
    ELSE LET c == Head(list)
             component_version == <<"\n">> \o versions[c]
             length == strlen(component_version)
         IN IF res[c] # kNoError
            THEN [st EXCEPT !.ret = res[c]]
            ELSE IF versions[c] = << >>
            THEN VersionComponents(Tail(list), st, versions, res)
            ELSE IF st.bytes_remaining < length
            THEN [st EXCEPT !.ret = kBadParameterError]
            ELSE VersionComponents(Tail(list),
                     Advance(memcpy(st, component_version, length), length),
                     versions, res)

\* Version copying its own version string without the test of
\* bytes_remaining.
Version_NoCapacityTest(version, bytes_remaining, position, versions, res) ==
    LET st0 == [ret |-> kNoError, version |-> version,
                bytes_remaining |-> bytes_remaining, position |-> position,
                writes |-> {}]
    IN IF version = NULL
       THEN [st0 EXCEPT !.ret = kNullPointerError]
       ELSE LET st1 == memset(st0, bytes_remaining)
                length == strlen(my_version)
            IN VersionComponents(component_list,
                   Advance(memcpy(st1, my_version, length), length),
                   versions, res)

\* AudioProcessingImpl::Version
Version(version, bytes_remaining, position, versions, res) ==
    LET st0 == [ret |-> kNoError, version |-> version,
                bytes_remaining |-> bytes_remaining, position |-> position,
                writes |-> {}]
    IN IF version = NULL
       THEN [st0 EXCEPT !.ret = kNullPointerError]
       ELSE LET st1 == memset(st0, bytes_remaining)
                length == strlen(my_version)
            IN IF bytes_remaining < length
               THEN [st1 EXCEPT !.ret = kBadParameterError]
               ELSE VersionComponents(component_list,
                        Advance(memcpy(st1, my_version, length), length),
                        versions, res)

----------------------------------------------------------------------------
(* The engine run one call at a time (every call under crit_).             *)

Err(code) == [err |-> code]
Val(v) == [value |-> v]

NoArgs == [none |-> TRUE]

NoThreads ==
    /\ pc = << >>
    /\ crit = 0
    /\ arg = << >>
    /\ local = << >>

Init ==
    /\ phase = "constructed"
    /\ apm = Constructed
    /\ is_enabled = [c \in {"echo_control_mobile", "noise_suppression"}
                       |-> FALSE]
    /\ debug_file = [open |-> FALSE, data |-> << >>]
    /\ op = "AudioProcessingImpl"
    /\ args = NoArgs
    /\ ret = Err(kNoError)
    /\ calls = << >>
    /\ frame = NULL
    /\ ncalls = 0
    /\ NoThreads

\* The instance exists and may be called once more.
Live == phase = "live" /\ ncalls < MaxCalls

\* No callee fails.
AllOk(stages) == [c \in Range(stages) |-> kNoError]

\* The results to enumerate for a call that, with no callee failing, makes
\* the calls `made`: if it makes none, no result is ever read.
Consulted(stages, made) ==
    IF made = << >> THEN {AllOk(stages)} ELSE Outcomes(stages)

\* What a call that takes no frame leaves in the record of the last call.
Returned(name, in, r) ==
    /\ ncalls' = ncalls + 1
    /\ op' = name
    /\ args' = in
    /\ ret' = Err(r.ret)
    /\ calls' = r.calls
    /\ frame' = NULL

NoCalls(code) == [ret |-> code, calls |-> << >>]

\* AudioProcessing::Create: the instance is deleted if Initialize fails.
Create ==
    /\ phase = "constructed"
    /\ \E res \in Outcomes(component_list) :
         LET r == InitializeLocked(apm, res)
         IN /\ apm' = r.apm
            /\ phase' = IF r.ret # kNoError THEN "deleted" ELSE "live"
            /\ op' = "Create"
            /\ args' = [res |-> res]
            /\ ret' = Err(r.ret)
            /\ calls' = r.calls
    /\ UNCHANGED <<is_enabled, debug_file, frame, ncalls, concvars>>

\* AudioProcessing::Destroy: the destructor closes the debug file.
Destroy ==
    /\ phase = "live"
    /\ phase' = "deleted"
    /\ debug_file' = [debug_file EXCEPT !.open = FALSE]
    /\ Returned("Destroy", NoArgs, NoCalls(kNoError))
    /\ UNCHANGED <<apm, is_enabled, concvars>>

\* Initialize closing the debug file.
Initialize_ClosesTrace ==
    /\ Live
    /\ \E res \in Outcomes(component_list) :
         LET r == InitializeLocked(apm, res)
         IN apm' = r.apm /\ Returned("Initialize", [res |-> res], r)
    /\ debug_file' = [debug_file EXCEPT !.open = FALSE]
    /\ UNCHANGED <<phase, is_enabled, concvars>>

\* AudioProcessingImpl::Initialize
Initialize ==
    /\ Live
    /\ \E res \in Outcomes(component_list) :
         LET r == InitializeLocked(apm, res)
         IN apm' = r.apm /\ Returned("Initialize", [res |-> res], r)
    /\ UNCHANGED <<phase, is_enabled, debug_file, concvars>>

SetSampleRateHz ==
    /\ Live
    /\ \E rate \in RateInputs :
       \E res \in Consulted(component_list,
                    set_sample_rate_hz(apm, rate, AllOk(component_list)).calls) :
         LET r == set_sample_rate_hz(apm, rate, res)
         IN /\ apm' = r.apm
            /\ Returned("set_sample_rate_hz", [rate |-> rate, res |-> res], r)
    /\ UNCHANGED <<phase, is_enabled, debug_file, concvars>>

SetNumReverseChannels ==
    /\ Live
    /\ \E channels \in ChannelInputs :
       \E res \in Consulted(component_list,
                    set_num_reverse_channels(apm, channels,
                                             AllOk(component_list)).calls) :
         LET r == set_num_reverse_channels(apm, channels, res)
         IN /\ apm' = r.apm
            /\ Returned("set_num_reverse_channels",
                        [channels |-> channels, res |-> res], r)
    /\ UNCHANGED <<phase, is_enabled, debug_file, concvars>>

SetNumChannels ==
    /\ Live
    /\ \E input_channels \in ChannelInputs, output_channels \in ChannelInputs :
       \E res \in Consulted(component_list,
                    set_num_channels(apm, input_channels, output_channels,
                                     AllOk(component_list)).calls) :
         LET r == set_num_channels(apm, input_channels, output_channels, res)
         IN /\ apm' = r.apm
            /\ Returned("set_num_channels",
                        [input_channels |-> input_channels,
                         output_channels |-> output_channels,
                         res |-> res], r)
    /\ UNCHANGED <<phase, is_enabled, debug_file, concvars>>

SetStreamDelayMs ==
    /\ Live
    /\ \E delay \in DelayInputs :
         LET r == set_stream_delay_ms(apm, delay)
         IN /\ apm' = r.apm
            /\ Returned("set_stream_delay_ms", [delay |-> delay], r)
    /\ UNCHANGED <<phase, is_enabled, debug_file, concvars>>

\* A getter: returns a member.
Got(name, v) ==
    /\ ncalls' = ncalls + 1
    /\ op' = name
    /\ args' = NoArgs
    /\ ret' = Val(v)
    /\ calls' = << >>
    /\ frame' = NULL
    /\ UNCHANGED <<phase, apm, is_enabled, debug_file, concvars>>

\* AudioProcessingImpl::stream_delay_ms
stream_delay_ms(a) == a.stream_delay_ms_

\* AudioProcessingImpl::was_stream_delay_set
was_stream_delay_set(a) == a.was_stream_delay_set_

StreamDelayMs == Live /\ Got("stream_delay_ms", stream_delay_ms(apm))

WasStreamDelaySet ==
    Live /\ Got("was_stream_delay_set", was_stream_delay_set(apm))

\* The record of a stream call fits into the debug file.
TraceHasRoom ==
    debug_file.open => Len(debug_file.data) + RecordLen <= MaxTraceLen

\* The numbers of successful writes to enumerate for a stream call that,
\* with every write succeeding, leaves the debug file as `written`: if it
\* writes nothing, no write can fail.
WritesConsulted(written) ==
    IF written = debug_file THEN {RecordLen} ELSE 0 .. RecordLen

StreamReturned(name, f, nok, res, r) ==
    /\ ncalls' = ncalls + 1
    /\ apm' = r.apm
    /\ debug_file' = r.debug_file
    /\ op' = name
    /\ args' = [frame |-> f, nok |-> nok, res |-> res]
    /\ ret' = Err(r.ret)
    /\ calls' = r.calls
    /\ frame' = r.frame

DoProcessStream ==
    /\ Live
    /\ TraceHasRoom
    /\ \E f \in FrameInputs :
       \E nok \in WritesConsulted(
                    ProcessStream(apm, debug_file, is_enabled, f, RecordLen,
                                  AllOk(CaptureStages)).debug_file) :
       \E res \in Consulted(CaptureStages,
                    ProcessStream(apm, debug_file, is_enabled, f, nok,
                                  AllOk(CaptureStages)).calls) :
         StreamReturned("ProcessStream", f, nok, res,
             ProcessStream(apm, debug_file, is_enabled, f, nok, res))
    /\ UNCHANGED <<phase, is_enabled, concvars>>

DoAnalyzeReverseStream ==
    /\ Live
    /\ TraceHasRoom
    /\ \E f \in FrameInputs :
       \E nok \in WritesConsulted(
                    AnalyzeReverseStream(apm, debug_file, f, RecordLen,
                                         AllOk(RenderStages)).debug_file) :
       \E res \in Consulted(RenderStages,
                    AnalyzeReverseStream(apm, debug_file, f, nok,
                                         AllOk(RenderStages)).calls) :
         StreamReturned("AnalyzeReverseStream", f, nok, res,
             AnalyzeReverseStream(apm, debug_file, f, nok, res))
    /\ UNCHANGED <<phase, is_enabled, concvars>>

DoStartDebugRecording ==
    /\ Live
    /\ \E filename \in Filenames, fail \in IoFailures :
         LET r == StartDebugRecording(apm, debug_file, filename, fail)
         IN /\ debug_file' = r.debug_file
            /\ Returned("StartDebugRecording",
                        [filename |-> filename, fail |-> fail],
                        NoCalls(r.ret))
    /\ UNCHANGED <<phase, apm, is_enabled, concvars>>

DoStopDebugRecording ==
    /\ Live
    /\ \E fail \in {"none", "CloseFile"} :
         LET r == StopDebugRecording(debug_file, fail)
         IN /\ debug_file' = r.debug_file
            /\ Returned("StopDebugRecording", [fail |-> fail], NoCalls(r.ret))
    /\ UNCHANGED <<phase, apm, is_enabled, concvars>>

\* Enable(bool) of echo_control_mobile() and noise_suppression().
Enable ==
    /\ Live
    /\ \E c \in DOMAIN is_enabled, b \in BOOLEAN :
         /\ is_enabled' = [is_enabled EXCEPT ![c] = b]
         /\ Returned("Enable", [component |-> c, enable |-> b],
                     NoCalls(kNoError))
    /\ UNCHANGED <<phase, apm, debug_file, concvars>>

Next ==
    \/ Create
    \/ Destroy
    \/ Initialize
    \/ SetSampleRateHz
    \/ SetNumReverseChannels
    \/ SetNumChannels
    \/ SetStreamDelayMs
    \/ StreamDelayMs
    \/ WasStreamDelaySet
    \/ DoProcessStream
    \/ DoAnalyzeReverseStream
    \/ DoStartDebugRecording
    \/ DoStopDebugRecording
    \/ Enable

Spec == Init /\ [][Next]_vars

----------------------------------------------------------------------------
(* Properties.                                                             *)

\* The step is a call of the public operation `name`.
IsCall(name) == ncalls' = ncalls + 1 /\ op' = name

\* The errors the frame validation of the stream calls returns.
ValidationErrors ==
    {Err(kNullPointerError), Err(kBadSampleRateError),
     Err(kBadNumberChannelsError), Err(kBadDataLengthError)}

\* The frame f is absent or does not have the rate, the channel count and
\* the length the engine a is configured for (channels: the count the
\* stream call compares with).
Mismatch(f, a, channels) ==
    \/ f = NULL
    \/ f._frequencyInHz # a.sample_rate_hz_
    \/ f._audioChannel # channels
    \/ f._payloadDataLengthInSamples # a.samples_per_channel_

\* C1: ProcessStream and AnalyzeReverseStream reject every frame that is
\* absent or whose rate, channel count (capture input count, resp. render
\* count) or length differs from the configuration; the rejected call
\* returns an error and changes nothing: the frame, every member of the
\* engine (configuration, stream delay, its flag, both buffers) and the
\* debug file are as before, and no collaborator is called.
C1_MismatchedFrameRejectedUnchanged ==
    [][ /\ ( IsCall("ProcessStream")
             /\ Mismatch(args'.frame, apm, apm.num_capture_input_channels_) )
          => ( /\ ret' \in ValidationErrors
               /\ frame' = args'.frame
               /\ apm' = apm
               /\ debug_file' = debug_file
               /\ calls' = << >> )
        /\ ( IsCall("AnalyzeReverseStream")
             /\ Mismatch(args'.frame, apm, apm.num_render_input_channels_) )
          => ( /\ ret' \in ValidationErrors
               /\ frame' = args'.frame
               /\ apm' = apm
               /\ debug_file' = debug_file
               /\ calls' = << >> )
      ]_vars

\* A frame of the wrong length was rejected by ProcessStream while the
\* debug file was open, the stream delay set and the capture buffer in use.
C1_Witness ==
    /\ op = "ProcessStream"
    /\ ret = Err(kBadDataLengthError)
    /\ frame = args.frame
    /\ debug_file.open
    /\ apm.capture_audio_.data # "none"

\* The arguments x of the setter `name` fail its validation.
InvalidSetterCall(name, x) ==
    \/ name = "set_sample_rate_hz"
         /\ x.rate \notin {kSampleRate8kHz, kSampleRate16kHz, kSampleRate32kHz}
    \/ name = "set_num_reverse_channels" /\ x.channels \notin {1, 2}
    \/ name = "set_num_channels"
         /\ ( \/ x.input_channels \notin {1, 2}
              \/ x.output_channels \notin {1, 2}
              \/ x.output_channels > x.input_channels )

Setters == {"set_sample_rate_hz", "set_num_reverse_channels",
            "set_num_channels"}

\* C2: a configuration change that fails validation returns
\* kBadParameterError, leaves every member of the engine unchanged (the
\* rates, samples_per_channel_, the channel counts, both buffers,
\* was_stream_delay_set_) and calls nothing: InitializeLocked does not run.
C2_RejectedSetterChangesNothing ==
    [][ ( ncalls' = ncalls + 1 /\ op' \in Setters
          /\ InvalidSetterCall(op', args') )
        => ( /\ ret' = Err(kBadParameterError)
             /\ apm' = apm
             /\ calls' = << >> )
      ]_vars

\* set_num_channels(1, 2) was rejected while the stream delay was set and
\* the capture buffer held a frame.
C2_Witness ==
    /\ op = "set_num_channels"
    /\ args.input_channels = 1 /\ args.output_channels = 2
    /\ ret = Err(kBadParameterError)
    /\ apm.was_stream_delay_set_
    /\ apm.capture_audio_.data # "none"

\* C3: in every reachable state sample_rate_hz_ is 8000, 16000 or 32000,
\* samples_per_channel_ is sample_rate_hz_ / 100, and split_sample_rate_hz_
\* is 16000 at 32000 Hz and sample_rate_hz_ otherwise.
C3_RateInvariant ==
    /\ apm.sample_rate_hz_ \in {8000, 16000, 32000}
    /\ apm.samples_per_channel_ * 100 = apm.sample_rate_hz_
    /\ apm.split_sample_rate_hz_ =
         IF apm.sample_rate_hz_ = 32000 THEN 16000 ELSE apm.sample_rate_hz_

\* set_sample_rate_hz(32000) stored the rate although a component failed to
\* initialize.
C3_Witness ==
    /\ op = "set_sample_rate_hz"
    /\ args.rate = 32000
    /\ ret = Err(kUnspecifiedError)
    /\ apm.sample_rate_hz_ = 32000
    /\ apm.split_sample_rate_hz_ = 16000

\* C4: in every reachable state the three channel counts are 1 or 2 and
\* num_capture_output_channels_ <= num_capture_input_channels_.
C4_ChannelInvariant ==
    /\ apm.num_render_input_channels_ \in {1, 2}
    /\ apm.num_capture_input_channels_ \in {1, 2}
    /\ apm.num_capture_output_channels_ \in {1, 2}
    /\ apm.num_capture_output_channels_ <= apm.num_capture_input_channels_

\* Stereo in and mono out were configured, and a later
\* set_num_reverse_channels(0) was rejected.
C4_Witness ==
    /\ op = "set_num_reverse_channels"
    /\ args.channels = 0
    /\ ret = Err(kBadParameterError)
    /\ apm.num_capture_input_channels_ = 2
    /\ apm.num_capture_output_channels_ = 1

----------------------------------------------------------------------------
(* The order of the component calls.                                       *)

\* The stream call `name` was the last call and got past validation and
\* tracing.
PassedTracing(name) ==
    op = name /\ ret \notin ValidationErrors \cup {Err(kFileError)}

\* Index of the first callee of `stages` that fails under res, 0 if none.
FirstFailure(stages, res) ==
    IF \A i \in DOMAIN stages : res[stages[i]] = kNoError
    THEN 0
    ELSE CHOOSE i \in DOMAIN stages :
            /\ res[stages[i]] # kNoError
            /\ \A j \in 1 .. i - 1 : res[stages[j]] = kNoError

\* The call c is one of the pipeline proper: not the buffer's
\* deinterleave, mix or interleave and not a splitting filter.
IsStage(c) ==
    /\ c[1] \notin {"SplittingFilterAnalysis", "SplittingFilterSynthesis"}
    /\ c[2] \notin {"DeinterleaveFrom", "Mix", "InterleaveTo"}

\* The prefix of seq that ends with its element x.
PrefixThrough(seq, x) ==
    SubSeq(seq, 1, CHOOSE i \in DOMAIN seq : seq[i] = x)

\* The capture pipeline in the order claimed, with the low-band snapshot
\* if and only if `both`.
CaptureOrder(both) ==
    IF both
    THEN << <<"high_pass_filter", "ProcessCaptureAudio">>,
            <<"gain_control", "AnalyzeCaptureAudio">>,
            <<"echo_cancellation", "ProcessCaptureAudio">>,
            <<"capture_audio", "CopyLowPassToReference">>,
            <<"noise_suppression", "ProcessCaptureAudio">>,
            <<"echo_control_mobile", "ProcessCaptureAudio">>,
            <<"voice_detection", "ProcessCaptureAudio">>,
            <<"gain_control", "ProcessCaptureAudio">> >>
    ELSE << <<"high_pass_filter", "ProcessCaptureAudio">>,
            <<"gain_control", "AnalyzeCaptureAudio">>,
            <<"echo_cancellation", "ProcessCaptureAudio">>,
            <<"noise_suppression", "ProcessCaptureAudio">>,
            <<"echo_control_mobile", "ProcessCaptureAudio">>,
            <<"voice_detection", "ProcessCaptureAudio">>,
            <<"gain_control", "ProcessCaptureAudio">> >>

\* C5: a ProcessStream call that passes validation and tracing calls
\* high-pass filter, gain-control analyze, echo cancellation, (the low-band
\* snapshot, once, iff mobile echo control and noise suppression are both
\* enabled), noise suppression, mobile echo control, voice detection and
\* gain-control process in this order; the first call that fails ends the
\* call with its error and is the last call made (no snapshot, synthesis
\* or interleave after it: the frame's payload is as on entry); the level
\* estimator is never called.
C5_CaptureOrder ==
    PassedTracing("ProcessStream") =>
      LET both == is_enabled["echo_control_mobile"]
                    /\ is_enabled["noise_suppression"]
          k == FirstFailure(CaptureOrder(FALSE), args.res)
          made == SelectSeq(calls, IsStage)
      IN /\ \A i \in DOMAIN calls : calls[i][1] # "level_estimator"
         /\ k = 0 =>
              /\ made = CaptureOrder(both)
              /\ ret = Err(kNoError)
              /\ calls[Len(calls)] = <<"capture_audio", "InterleaveTo">>
         /\ k # 0 =>
              /\ made = PrefixThrough(CaptureOrder(both),
                                      CaptureOrder(FALSE)[k])
              /\ ret = Err(args.res[CaptureOrder(FALSE)[k]])
              /\ calls[Len(calls)] = CaptureOrder(FALSE)[k]
              /\ frame._payloadData = args.frame._payloadData

\* With both components enabled, noise suppression (called right after the
\* snapshot) failed and ended the call.
C5_Witness ==
    /\ op = "ProcessStream"
    /\ is_enabled["echo_control_mobile"] /\ is_enabled["noise_suppression"]
    /\ args.res[<<"noise_suppression", "ProcessCaptureAudio">>] # kNoError
    /\ ret = Err(args.res[<<"noise_suppression", "ProcessCaptureAudio">>])
    /\ Len(calls) >= 2
    /\ calls[Len(calls) - 1] = <<"capture_audio", "CopyLowPassToReference">>

RenderOrder ==
    << <<"echo_cancellation", "ProcessRenderAudio">>,
       <<"echo_control_mobile", "ProcessRenderAudio">>,
       <<"gain_control", "ProcessRenderAudio">> >>

\* C6: an AnalyzeReverseStream call that passes validation and tracing calls
\* echo cancellation, mobile echo control and gain control (render side) in
\* this order; the first one that fails ends the call with its error, is
\* the last call made, and was_stream_delay_set_ keeps its value; only when
\* all three succeed is was_stream_delay_set_ cleared and kNoError returned.
C6_RenderOrder ==
    [][ ( IsCall("AnalyzeReverseStream")
          /\ ret' \notin ValidationErrors \cup {Err(kFileError)} )
        => LET k == FirstFailure(RenderOrder, args'.res)
               made == SelectSeq(calls', IsStage)
           IN /\ k = 0 =>
                   /\ made = RenderOrder
                   /\ ret' = Err(kNoError)
                   /\ apm'.was_stream_delay_set_ = FALSE
              /\ k # 0 =>
                   /\ made = SubSeq(RenderOrder, 1, k)
                   /\ calls'[Len(calls')] = RenderOrder[k]
                   /\ ret' = Err(args'.res[RenderOrder[k]])
                   /\ apm'.was_stream_delay_set_ = apm.was_stream_delay_set_
      ]_vars

\* The mobile echo control failed on the render side, the call returned
\* its error, and the stream delay flag set before is still set.
C6_Witness ==
    /\ op = "AnalyzeReverseStream"
    /\ args.res[<<"echo_control_mobile", "ProcessRenderAudio">>] # kNoError
    /\ ret = Err(args.res[<<"echo_control_mobile", "ProcessRenderAudio">>])
    /\ Len(calls) >= 2
    /\ calls[Len(calls)] = <<"echo_control_mobile", "ProcessRenderAudio">>
    /\ apm.was_stream_delay_set_

----------------------------------------------------------------------------
(* The stream delay.                                                       *)

\* The step is a call that runs InitializeLocked: Initialize, or a setter
\* whose arguments pass validation.
RunsInitializeLocked ==
    \/ IsCall("Initialize")
    \/ /\ ncalls' = ncalls + 1
       /\ op' \in Setters
       /\ ~InvalidSetterCall(op', args')

SuccessfulAnalyzeReverseStream ==
    IsCall("AnalyzeReverseStream") /\ ret' = Err(kNoError)

\* C7 as claimed: was_stream_delay_set_ turns from true to false only in a
\* successful AnalyzeReverseStream call (and does so there), and is true
\* after every set_stream_delay_ms call.
C7_OnlyAnalyzeClearsFlag ==
    [][ /\ ( apm.was_stream_delay_set_ /\ ~apm'.was_stream_delay_set_ )
          => SuccessfulAnalyzeReverseStream
        /\ SuccessfulAnalyzeReverseStream => ~apm'.was_stream_delay_set_
        /\ IsCall("set_stream_delay_ms") => apm'.was_stream_delay_set_
      ]_vars

\* C7, amended: was_stream_delay_set_ turns from true to false only in a
\* successful AnalyzeReverseStream call or in a call that runs
\* InitializeLocked (Initialize, or a configuration setter whose arguments
\* pass validation, whether or not the components then initialize); it is
\* false after each of these calls, and true after every
\* set_stream_delay_ms call whatever that call returns.
C7_AnalyzeOrInitializeClearsFlag ==
    [][ /\ ( apm.was_stream_delay_set_ /\ ~apm'.was_stream_delay_set_ )
          => ( SuccessfulAnalyzeReverseStream \/ RunsInitializeLocked )
        /\ SuccessfulAnalyzeReverseStream => ~apm'.was_stream_delay_set_
        /\ RunsInitializeLocked => ~apm'.was_stream_delay_set_
        /\ IsCall("set_stream_delay_ms") => apm'.was_stream_delay_set_
      ]_vars

\* The first call set the delay (and the flag), the second, Initialize,
\* cleared the flag although a component failed to initialize.
C7_Witness ==
    /\ ncalls = 2
    /\ op = "Initialize"
    /\ ret # Err(kNoError)
    /\ apm.stream_delay_ms_ = 250
    /\ ~apm.was_stream_delay_set_

\* C8: set_stream_delay_ms(delay) with delay < 0 returns kBadParameterError
\* and leaves stream_delay_ms_ as it was; with delay > 500 it stores 500 and
\* returns kBadStreamParameterWarning; otherwise it stores delay and
\* returns kNoError; stream_delay_ms() returns the stored value.
C8_SetStreamDelay ==
    [][ /\ IsCall("set_stream_delay_ms") =>
             /\ args'.delay < 0 =>
                  /\ ret' = Err(kBadParameterError)
                  /\ apm'.stream_delay_ms_ = apm.stream_delay_ms_
             /\ args'.delay > 500 =>
                  /\ ret' = Err(kBadStreamParameterWarning)
                  /\ apm'.stream_delay_ms_ = 500
             /\ ( args'.delay >= 0 /\ args'.delay <= 500 ) =>
                  /\ ret' = Err(kNoError)
                  /\ apm'.stream_delay_ms_ = args'.delay
        /\ IsCall("stream_delay_ms") =>
             /\ ret' = Val(apm.stream_delay_ms_)
             /\ apm' = apm
      ]_vars

\* A delay above 500 was clamped to 500 with a warning.
C8_Witness ==
    /\ op = "set_stream_delay_ms"
    /\ args.delay > 500
    /\ ret = Err(kBadStreamParameterWarning)
    /\ apm.stream_delay_ms_ = 500

\* C9: stream_delay_ms_ is 0 after construction, lies in [0, 500] in every
\* reachable state, and changes only in set_stream_delay_ms calls.
C9_StreamDelayRange ==
    [][ /\ phase = "constructed" => apm.stream_delay_ms_ = 0
        /\ apm'.stream_delay_ms_ \in 0 .. 500
        /\ apm'.stream_delay_ms_ # apm.stream_delay_ms_
             => IsCall("set_stream_delay_ms")
      ]_vars

\* The delay was clamped to 500 and then survived a rejected negative
\* delay.
C9_Witness ==
    /\ op = "set_stream_delay_ms"
    /\ args.delay < 0
    /\ ret = Err(kBadParameterError)
    /\ apm.stream_delay_ms_ = 500

----------------------------------------------------------------------------
\* Two threads calling one live instance, statement by statement.  The
\* CriticalSectionScoped object takes crit_ in the first statement of the
\* operations that declare one and gives it back when the operation
\* returns; set_stream_delay_ms, stream_delay_ms and was_stream_delay_set
\* declare none.

Threads == {1, 2}

\* The engine Create() returns.
Created == InitializeLocked(Constructed, AllOk(component_list))

\* The frame of the default configuration.
DefaultFrame ==
    [ _frequencyInHz |-> kSampleRate16kHz,
      _audioChannel |-> 1,
      _payloadDataLengthInSamples |-> 160,
      _payloadData |-> "pcm" ]

\* The stream delay and its flag, as a thread finds them when it enters an
\* operation.
DelayState == <<apm.was_stream_delay_set_, apm.stream_delay_ms_>>

InitConc ==
    /\ phase = "live"
    /\ apm = Created.apm
    /\ is_enabled = [c \in {"echo_control_mobile", "noise_suppression"}
                       |-> FALSE]
    /\ debug_file = [open |-> FALSE, data |-> << >>]
    /\ op = "Create"
    /\ args = [res |-> AllOk(component_list)]
    /\ ret = Err(Created.ret)
    /\ calls = Created.calls
    /\ frame = NULL
    /\ ncalls = 0
    /\ pc = [t \in Threads |-> "idle"]
    /\ crit = 0
    /\ arg = [t \in Threads |-> NoArgs]
    /\ local = [t \in Threads |-> NoArgs]

Unobserved ==
    UNCHANGED <<phase, is_enabled, debug_file, op, args, ret, calls, frame,
                ncalls>>

\* The thread moves on inside its operation.
Goto(t, label) == pc' = [pc EXCEPT ![t] = label] /\ UNCHANGED local

\* The thread returns v; the scoped lock, if the thread holds it, is
\* released.
Return(t, v) ==
    /\ pc' = [pc EXCEPT ![t] = "done"]
    /\ local' = [local EXCEPT ![t] = v]
    /\ crit' = IF crit = t THEN 0 ELSE crit

\* The CriticalSectionScoped declaration, first statement of `name`.
Enter(t, name, in) ==
    /\ crit = 0
    /\ crit' = t
    /\ arg' = [arg EXCEPT ![t] = in]
    /\ Goto(t, name)
    /\ UNCHANGED apm
    /\ Unobserved

\* Initialize
C_Initialize(t) ==
    /\ pc[t] = "idle"
    /\ Enter(t, "InitializeLocked_buffers", [entry |-> DelayState])

\* InitializeLocked: the two buffers are replaced.
C_InitializeLocked_Buffers(t) ==
    /\ pc[t] = "InitializeLocked_buffers"
    /\ apm' = [apm EXCEPT
                 !.render_audio_ =
                     NewAudioBuffer(apm.num_render_input_channels_,
                                    apm.samples_per_channel_),
                 !.capture_audio_ =
                     NewAudioBuffer(apm.num_capture_input_channels_,
                                    apm.samples_per_channel_)]
    /\ Goto(t, "InitializeLocked_flag")
    /\ UNCHANGED <<crit, arg>>
    /\ Unobserved

\* InitializeLocked: was_stream_delay_set_ = false
C_InitializeLocked_Flag(t) ==
    /\ pc[t] = "InitializeLocked_flag"
    /\ apm' = [apm EXCEPT !.was_stream_delay_set_ = FALSE]
    /\ Goto(t, "InitializeLocked_components")
    /\ UNCHANGED <<crit, arg>>
    /\ Unobserved

\* InitializeLocked: the loop over the components, and the return.
C_InitializeLocked_Components(t) ==
    /\ pc[t] = "InitializeLocked_components"
    /\ \E res \in Outcomes(component_list) :
         Return(t, Err(InitializeComponents(component_list, res, << >>).err))
    /\ UNCHANGED <<apm, arg>>
    /\ Unobserved

\* AnalyzeReverseStream
C_AnalyzeReverseStream(t) ==
    /\ pc[t] = "idle"
    /\ \E f \in {DefaultFrame, NULL} :
         Enter(t, "AnalyzeReverseStream_validate",
               [frame |-> f, entry |-> DelayState])

\* AnalyzeReverseStream: the tests of the frame (the debug file is closed).
C_AnalyzeReverseStream_Validate(t) ==
    /\ pc[t] = "AnalyzeReverseStream_validate"
    /\ LET r == AnalyzeReverseStream(apm, debug_file, arg[t].frame,
                                     RecordLen, AllOk(RenderStages))
       IN IF r.calls = << >>
          THEN Return(t, Err(r.ret))
          ELSE Goto(t, "AnalyzeReverseStream_pipeline") /\ UNCHANGED crit
    /\ UNCHANGED <<apm, arg>>
    /\ Unobserved

\* AnalyzeReverseStream: from DeinterleaveFrom to the last component call.
C_AnalyzeReverseStream_Pipeline(t) ==
    /\ pc[t] = "AnalyzeReverseStream_pipeline"
    /\ \E res \in Outcomes(RenderStages) :
         LET p == RenderPipeline(apm, arg[t].frame, res)
         IN /\ apm' = p.apm
            /\ IF p.err # kNoError
               THEN Return(t, Err(p.err))
               ELSE Goto(t, "AnalyzeReverseStream_flag") /\ UNCHANGED crit
    /\ UNCHANGED arg
    /\ Unobserved

\* AnalyzeReverseStream: was_stream_delay_set_ = false; return err
C_AnalyzeReverseStream_Flag(t) ==
    /\ pc[t] = "AnalyzeReverseStream_flag"
    /\ apm' = [apm EXCEPT !.was_stream_delay_set_ = FALSE]
    /\ Return(t, Err(kNoError))
    /\ UNCHANGED arg
    /\ Unobserved

\* set_stream_delay_ms: was_stream_delay_set_ = true (no lock is taken)
C_set_stream_delay_ms(t) ==
    /\ pc[t] = "idle"
    /\ \E delay \in DelayInputs : arg' = [arg EXCEPT ![t] = [delay |-> delay]]
    /\ apm' = [apm EXCEPT !.was_stream_delay_set_ = TRUE]
    /\ Goto(t, "set_stream_delay_ms_store")
    /\ UNCHANGED crit
    /\ Unobserved

\* set_stream_delay_ms: the tests of delay, the store and the return.
C_set_stream_delay_ms_Store(t) ==
    /\ pc[t] = "set_stream_delay_ms_store"
    /\ LET r == set_stream_delay_ms(apm, arg[t].delay)
       IN /\ apm' = [apm EXCEPT !.stream_delay_ms_ = r.apm.stream_delay_ms_]
          /\ Return(t, Err(r.ret))
    /\ UNCHANGED arg
    /\ Unobserved

\* stream_delay_ms (no lock is taken)
C_stream_delay_ms(t) ==
    /\ pc[t] = "idle"
    /\ Return(t, Val(stream_delay_ms(apm)))
    /\ UNCHANGED <<apm, arg>>
    /\ Unobserved

\* was_stream_delay_set (no lock is taken)
C_was_stream_delay_set(t) ==
    /\ pc[t] = "idle"
    /\ Return(t, Val(was_stream_delay_set(apm)))
    /\ UNCHANGED <<apm, arg>>
    /\ Unobserved

\* ChangeUniqueId
C_ChangeUniqueId(t) ==
    /\ pc[t] = "idle"
    /\ \E id \in {1, 2} : Enter(t, "ChangeUniqueId_store", [id |-> id])

\* ChangeUniqueId: id_ = id; return kNoError
C_ChangeUniqueId_Store(t) ==
    /\ pc[t] = "ChangeUniqueId_store"
    /\ apm' = [apm EXCEPT !.id_ = arg[t].id]
    /\ Return(t, Err(kNoError))
    /\ UNCHANGED arg
    /\ Unobserved

NextConc ==
    \E t \in Threads :
      \/ C_Initialize(t)
      \/ C_InitializeLocked_Buffers(t)
      \/ C_InitializeLocked_Flag(t)
      \/ C_InitializeLocked_Components(t)
      \/ C_AnalyzeReverseStream(t)
      \/ C_AnalyzeReverseStream_Validate(t)
      \/ C_AnalyzeReverseStream_Pipeline(t)
      \/ C_AnalyzeReverseStream_Flag(t)
      \/ C_set_stream_delay_ms(t)
      \/ C_set_stream_delay_ms_Store(t)
      \/ C_stream_delay_ms(t)
      \/ C_was_stream_delay_set(t)
      \/ C_ChangeUniqueId(t)
      \/ C_ChangeUniqueId_Store(t)

SpecConc == InitConc /\ [][NextConc]_vars

\* The thread has executed a statement of its operation and has not
\* returned.
Inside(t) == pc[t] \notin {"idle", "done"}

InsideInitialize(t) ==
    pc[t] \in {"InitializeLocked_buffers", "InitializeLocked_flag",
               "InitializeLocked_components"}

InsideAnalyzeReverseStream(t) ==
    pc[t] \in {"AnalyzeReverseStream_validate",
               "AnalyzeReverseStream_pipeline", "AnalyzeReverseStream_flag"}

\* C10: every public operation holds crit_ from its first statement to its
\* return, so that no thread is inside an operation without holding it; in
\* particular no set_stream_delay_ms takes effect in the middle of an
\* Initialize or AnalyzeReverseStream call: until such a call writes
\* was_stream_delay_set_ itself, the flag and the delay are as it found
\* them, and after Initialize has cleared the flag it stays cleared until
\* Initialize returns.
C10_OperationsSerialized ==
    \A t \in Threads :
      /\ Inside(t) => crit = t
      /\ InsideAnalyzeReverseStream(t) => DelayState = arg[t].entry
      /\ InsideInitialize(t) => apm.stream_delay_ms_ = arg[t].entry[2]
      /\ pc[t] \in {"InitializeLocked_buffers", "InitializeLocked_flag"}
           => apm.was_stream_delay_set_ = arg[t].entry[1]
      /\ pc[t] = "InitializeLocked_components" => ~apm.was_stream_delay_set_

----------------------------------------------------------------------------
(* The debug trace.                                                        *)

\* What a successful StartDebugRecording leaves in the file at `rate`.
TraceHeader(rate) ==
    << <<"magic", kMagicNumber>>,
       <<"event", kInitializeEvent>>,
       <<"sample_rate_hz_", rate>> >>

StreamCalls == {"ProcessStream", "AnalyzeReverseStream"}

EventOf(name) == IF name = "ProcessStream" THEN kCaptureEvent ELSE kRenderEvent

\* The stream call of this step got past validation and tracing.
Processed == op' \in StreamCalls /\ ncalls' = ncalls + 1 /\ calls' # << >>

\* The record of the frame the stream call of this step was given.
RecordOfCall == EventRecord(EventOf(op'), args'.frame)

\* C11 as stated: a StartDebugRecording that leaves a new trace open leaves
\* the magic line and one Initialize record with the current rate; a
\* successful stream call on an open trace appends exactly the record of its
\* frame as it was on entry; and nothing else is ever appended to an open
\* trace, so that the records are those of the successful stream calls.
C11_OneRecordPerSuccessfulCall ==
    [][ /\ ( /\ IsCall("StartDebugRecording")
             /\ debug_file'.open
             /\ debug_file' # debug_file )
           => debug_file'.data = TraceHeader(apm.sample_rate_hz_)
        /\ ( /\ op' \in StreamCalls /\ ncalls' = ncalls + 1
             /\ debug_file.open
             /\ ret' = Err(kNoError) )
           => /\ debug_file'.open
              /\ debug_file'.data = debug_file.data \o RecordOfCall
        /\ ( /\ debug_file.open /\ debug_file'.open
             /\ ~IsCall("StartDebugRecording")
             /\ ~(op' \in StreamCalls /\ ret' = Err(kNoError)) )
           => debug_file'.data = debug_file.data
      ]_vars

\* C11, amended: a successful StartDebugRecording leaves the trace open
\* holding the magic line and one Initialize record with the current rate;
\* every stream call on an open trace that passes validation and completes
\* its five writes, successful or failing later in a component, appends
\* exactly the record of its frame as it was on entry, with the tag of a
\* Capture event for ProcessStream and of a Render event for
\* AnalyzeReverseStream, and every successful stream call is such a call; an
\* open trace otherwise grows only by the part of a record written before a
\* write failed, in a stream call that returns a file error.
C11_TraceRecords ==
    [][ /\ ( IsCall("StartDebugRecording") /\ ret' = Err(kNoError) )
           => debug_file' = [open |-> TRUE,
                             data |-> TraceHeader(apm.sample_rate_hz_)]
        /\ ( Processed /\ debug_file.open )
           => /\ debug_file'.open
              /\ debug_file'.data = debug_file.data \o RecordOfCall
        /\ ( /\ op' \in StreamCalls /\ ncalls' = ncalls + 1
             /\ ret' = Err(kNoError) )
           => Processed
        /\ ( /\ debug_file.open /\ debug_file'.open
             /\ debug_file'.data # debug_file.data
             /\ ~IsCall("StartDebugRecording")
             /\ ~Processed )
           => /\ op' \in StreamCalls /\ ncalls' = ncalls + 1
              /\ ret' = Err(kFileError)
              /\ \E k \in 1 .. RecordLen - 1 :
                   debug_file'.data =
                       debug_file.data \o SubSeq(RecordOfCall, 1, k)
      ]_vars

\* Recording was started at 16 kHz; a ProcessStream and then an
\* AnalyzeReverseStream succeeded, and the trace holds the header, the
\* Capture record and the Render record in that order.
C11_Witness ==
    /\ op = "AnalyzeReverseStream"
    /\ ret = Err(kNoError)
    /\ debug_file.open
    /\ Len(debug_file.data) = 3 + 2 * RecordLen
    /\ SubSeq(debug_file.data, 1, 3) = TraceHeader(kSampleRate16kHz)
    /\ debug_file.data[4] = <<"event", kCaptureEvent>>
    /\ SubSeq(debug_file.data, 4 + RecordLen, 3 + 2 * RecordLen)
         = EventRecord(kRenderEvent, args.frame)

\* C12: a stream call on an open trace in which one of the five writes of
\* the event record fails returns kFileError with no further processing: no
\* buffer operation, filter or component is called, the engine's members
\* (the buffers and was_stream_delay_set_ among them) and the frame are as
\* they were on entry, and the trace holds the writes that succeeded.
C12_WriteFailureAbortsCall ==
    [][ ( /\ op' \in StreamCalls /\ ncalls' = ncalls + 1
          /\ debug_file.open
          /\ args'.frame # NULL
          /\ ~Mismatch(args'.frame, apm,
                       IF op' = "ProcessStream"
                       THEN apm.num_capture_input_channels_
                       ELSE apm.num_render_input_channels_)
          /\ args'.nok < RecordLen )
        => /\ ret' = Err(kFileError)
           /\ calls' = << >>
           /\ apm' = apm
           /\ frame' = args'.frame
           /\ debug_file'.open
           /\ debug_file'.data =
                  debug_file.data \o SubSeq(RecordOfCall, 1, args'.nok)
      ]_vars

\* Stereo in and mono out were configured and recording started; the third
\* write of a ProcessStream on a stereo frame failed: the frame is still
\* stereo and the capture buffer was never filled.
C12_Witness ==
    /\ op = "ProcessStream"
    /\ args.nok = 2
    /\ ret = Err(kFileError)
    /\ apm.num_capture_output_channels_ < apm.num_capture_input_channels_
    /\ frame._audioChannel = 2
    /\ apm.capture_audio_.data = "none"
    /\ Len(debug_file.data) = 3 + 2

----------------------------------------------------------------------------
(* Initialization and reconfiguration.                                     *)

\* The order of initialization claimed.
RegistrationOrder ==
    << "echo_cancellation", "echo_control_mobile", "gain_control",
       "high_pass_filter", "level_estimator", "noise_suppression",
       "voice_detection" >>

\* The calls of an InitializeLocked in which the first n components are
\* initialized.
InitializeCalls(n) ==
    << <<"render_audio", "new">>, <<"capture_audio", "new">> >> \o
    [i \in 1 .. n |-> <<RegistrationOrder[i], "Initialize">>]

\* C13: Initialize() replaces both buffers by new ones of the current
\* configuration, clears was_stream_delay_set_ and initializes the
\* components in registration order up to and including the first one that
\* fails; it returns that component's error, and kNoError only when all
\* seven were initialized.  Nothing is undone after a failure: the calls
\* made are exactly these, and the new buffers and the cleared flag remain.
C13_InitializeStopsAtFirstFailure ==
    op = "Initialize" =>
      LET k == FirstFailure(RegistrationOrder, args.res)
      IN /\ calls = InitializeCalls(IF k = 0 THEN Len(RegistrationOrder)
                                    ELSE k)
         /\ ret = Err(IF k = 0 THEN kNoError
                      ELSE args.res[RegistrationOrder[k]])
         /\ apm.render_audio_ =
                NewAudioBuffer(apm.num_render_input_channels_,
                               apm.samples_per_channel_)
         /\ apm.capture_audio_ =
                NewAudioBuffer(apm.num_capture_input_channels_,
                               apm.samples_per_channel_)
         /\ ~apm.was_stream_delay_set_

\* Initialize() on a stereo 32 kHz engine failed in the level estimator:
\* the four components before it were initialized, the two after it were
\* not.
C13_Witness ==
    /\ op = "Initialize"
    /\ args.res["level_estimator"] # kNoError
    /\ ret = Err(args.res["level_estimator"])
    /\ Len(calls) = 2 + 5
    /\ apm.sample_rate_hz_ = kSampleRate32kHz
    /\ apm.capture_audio_.max_num_channels = 2

\* The configuration of the engine.
Config(a) ==
    <<a.sample_rate_hz_, a.split_sample_rate_hz_, a.samples_per_channel_,
      a.num_render_input_channels_, a.num_capture_input_channels_,
      a.num_capture_output_channels_>>

\* The configuration the setter call of this step asks for.
Requested ==
    CASE op' = "set_sample_rate_hz" ->
           /\ apm'.sample_rate_hz_ = args'.rate
           /\ apm'.samples_per_channel_ = args'.rate \div 100
      [] op' = "set_num_reverse_channels" ->
           apm'.num_render_input_channels_ = args'.channels
      [] op' = "set_num_channels" ->
           /\ apm'.num_capture_input_channels_ = args'.input_channels
           /\ apm'.num_capture_output_channels_ = args'.output_channels

\* C14: every call of a configuration setter either returns kNoError with
\* the requested configuration stored and the engine reinitialized, or
\* returns an error with the rate, the split rate, the samples per channel
\* and the three channel counts as they were before the call, whatever the
\* cause of the error, a component failing to initialize included.
C14_ReconfigurationAllOrNothing ==
    [][ ( op' \in Setters /\ ncalls' = ncalls + 1 )
        => IF ret' = Err(kNoError)
           THEN /\ Requested
                /\ calls' = InitializeCalls(Len(RegistrationOrder))
           ELSE Config(apm') = Config(apm)
      ]_vars

----------------------------------------------------------------------------
(* Version called on a created engine: the caller's buffer, bytes_remaining *)
(* and position are its own variables, passed by reference.                 *)

\* The buffer of a caller that passes capacity cap at position pos.
Buffer(pos, cap) == [bytes |-> [i \in 1 .. pos + cap |-> Stale]]

\* The component results to enumerate: with no buffer, none is read.
VersionConsulted(version, set, none) == IF version = NULL THEN {none} ELSE set

InitVersion ==
    /\ phase = "live"
    /\ apm = Created.apm
    /\ is_enabled = [c \in {"echo_control_mobile", "noise_suppression"}
                       |-> FALSE]
    /\ debug_file = [open |-> FALSE, data |-> << >>]
    /\ op = "Create"
    /\ args = [res |-> AllOk(component_list)]
    /\ ret = Err(Created.ret)
    /\ calls = Created.calls
    /\ frame = NULL
    /\ ncalls = 0
    /\ pc = "Version"
    /\ crit = 0
    /\ \E cap \in 0 .. MaxCapacity, pos \in 0 .. MaxPosition :
       \E version \in {NULL, Buffer(pos, cap)} :
       \E versions \in VersionConsulted(version, VersionInputs,
                           [c \in Range(component_list) |-> << >>]),
          res \in VersionConsulted(version, Outcomes(component_list),
                      AllOk(component_list)) :
         /\ arg = [version |-> version, bytes_remaining |-> cap,
                   position |-> pos, versions |-> versions, res |-> res]
         /\ local = [version |-> version, bytes_remaining |-> cap,
                     position |-> pos, ret |-> NoArgs, writes |-> {}]

\* The call: Version takes no lock and reads no member but component_list_.
CallVersion ==
    /\ pc = "Version"
    /\ pc' = "returned"
    /\ LET r == Version(local.version, local.bytes_remaining, local.position,
                        arg.versions, arg.res)
       IN local' = [version |-> r.version,
                    bytes_remaining |-> r.bytes_remaining,
                    position |-> r.position, ret |-> Err(r.ret),
                    writes |-> r.writes]
    /\ UNCHANGED <<crit, arg, apm>>
    /\ Unobserved

NextVersion == CallVersion

SpecVersion == InitVersion /\ [][NextVersion]_vars

RECURSIVE Concat(_)
Concat(pieces) ==
    IF pieces = << >> THEN << >> ELSE Head(pieces) \o Concat(Tail(pieces))

\* The pieces Version has to write: its own version string and then, in
\* registration order, a newline and the version of every component that
\* reports one, up to the first component whose get_version fails.
Pieces(versions, res) ==
    LET k == FirstFailure(RegistrationOrder, res)
        n == IF k = 0 THEN Len(RegistrationOrder) ELSE k - 1
        reporting == SelectSeq([i \in 1 .. n |-> i],
                         LAMBDA i : versions[RegistrationOrder[i]] # << >>)
    IN <<my_version>> \o
       [j \in 1 .. Len(reporting) |->
          <<"\n">> \o versions[RegistrationOrder[reporting[j]]]]

\* The number of leading pieces that fit into cap bytes.
Fitting(pieces, cap) ==
    CHOOSE k \in 0 .. Len(pieces) :
      /\ Len(Concat(SubSeq(pieces, 1, k))) <= cap
      /\ k < Len(pieces) => Len(Concat(SubSeq(pieces, 1, k + 1))) > cap

----------------------------------------------------------------------------
(* Reconfiguration and the debug trace.                                    *)

Reconfigurations == Setters \cup {"Initialize"}

\* C16: Initialize and the three configuration setters, successful or not,
\* leave the debug file as it is, open or closed and with the records it
\* holds; the file is opened or closed only by StartDebugRecording,
\* StopDebugRecording and the destructor.
C16_ReconfigurationKeepsTrace ==
    [][ /\ ( op' \in Reconfigurations /\ ncalls' = ncalls + 1 )
           => debug_file' = debug_file
        /\ debug_file'.open # debug_file.open
           => /\ ncalls' = ncalls + 1
              /\ op' \in {"StartDebugRecording", "StopDebugRecording",
                          "Destroy"}
      ]_vars

\* Recording was started at 16 kHz, the rate was then set to 32 kHz, and a
\* later ProcessStream of a 32 kHz frame appended its record to the trace.
C16_Witness ==
    /\ op = "ProcessStream"
    /\ ret = Err(kNoError)
    /\ debug_file.open
    /\ apm.sample_rate_hz_ = kSampleRate32kHz
    /\ debug_file.data =
         TraceHeader(kSampleRate16kHz) \o EventRecord(kCaptureEvent, args.frame)

----------------------------------------------------------------------------
(* Sub-band splitting and downmix.                                         *)

\* One call of the filter `name` for each of the channels 0 .. n - 1.
OncePerChannel(name, n) == [i \in 1 .. n |-> <<name, ToString(i - 1)>>]

\* The place of a call in a stream pipeline: filling the buffer, analysis,
\* the components, synthesis, writing the frame back.
PlaceOf(c) ==
    CASE c[2] \in {"DeinterleaveFrom", "Mix"} -> 1
      [] c[1] = "SplittingFilterAnalysis" -> 2
      [] c[1] = "SplittingFilterSynthesis" -> 4
      [] c[2] = "InterleaveTo" -> 5
      [] OTHER -> 3

FilterStates(a) ==
    <<a.capture_audio_.analysis_filter_state,
      a.capture_audio_.synthesis_filter_state,
      a.render_audio_.analysis_filter_state,
      a.render_audio_.synthesis_filter_state>>

\* C17: in every stream call that passes validation and tracing the calls
\* come in the order buffer filling (deinterleave, downmix), analysis
\* filter, components, synthesis filter, interleave.  At 32000 Hz the
\* analysis filter runs exactly once for each of the
\* num_capture_input_channels_ channels in ProcessStream and for each of
\* the num_render_input_channels_ channels in AnalyzeReverseStream; the
\* synthesis filter runs exactly once for each of the
\* num_capture_output_channels_ channels in a successful ProcessStream and
\* never otherwise.  At 8000 and 16000 Hz neither filter runs and no filter
\* state changes.
C17_SubBandFilters ==
    [][ Processed =>
          LET split == apm.sample_rate_hz_ = kSampleRate32kHz
              capture == op' = "ProcessStream"
              analysed == IF capture THEN apm.num_capture_input_channels_
                          ELSE apm.num_render_input_channels_
              analysis == SelectSeq(calls',
                              LAMBDA c : c[1] = "SplittingFilterAnalysis")
              synthesis == SelectSeq(calls',
                               LAMBDA c : c[1] = "SplittingFilterSynthesis")
          IN /\ \A i, j \in DOMAIN calls' :
                  i < j => PlaceOf(calls'[i]) <= PlaceOf(calls'[j])
             /\ analysis =
                  IF split
                  THEN OncePerChannel("SplittingFilterAnalysis", analysed)
                  ELSE << >>
             /\ synthesis =
                  IF split /\ capture /\ ret' = Err(kNoError)
                  THEN OncePerChannel("SplittingFilterSynthesis",
                                      apm.num_capture_output_channels_)
                  ELSE << >>
             /\ ~split => FilterStates(apm') = FilterStates(apm)
      ]_vars

\* At 32 kHz with stereo in and mono out a ProcessStream succeeded: two
\* analysis calls, one synthesis call.
C17_Witness ==
    /\ op = "ProcessStream"
    /\ ret = Err(kNoError)
    /\ apm.sample_rate_hz_ = kSampleRate32kHz
    /\ apm.num_capture_input_channels_ = 2
    /\ apm.num_capture_output_channels_ = 1
    /\ Len(SelectSeq(calls, LAMBDA c : c[1] = "SplittingFilterAnalysis")) = 2
    /\ Len(SelectSeq(calls, LAMBDA c : c[1] = "SplittingFilterSynthesis")) = 1
    /\ apm.capture_audio_.synthesis_filter_state = "updated"

\* C18: in every ProcessStream call that passes validation and tracing,
\* if num_capture_output_channels_ < num_capture_input_channels_ the
\* buffer is mixed down exactly once, to num_capture_output_channels_,
\* right after DeinterleaveFrom and before any filter or component, and the
\* frame's channel count is num_capture_output_channels_ when the call
\* returns, whether it succeeds or a component fails; if the two counts are
\* equal there is no Mix and the frame's channel count is as on entry.  No
\* stream call changes the frame's rate or length.
C18_Downmix ==
    [][ /\ ( Processed /\ op' = "ProcessStream" )
           => LET mixes == SelectSeq(calls', LAMBDA c : c[2] = "Mix")
              IN /\ calls'[1] = <<"capture_audio", "DeinterleaveFrom">>
                 /\ IF apm.num_capture_output_channels_
                         < apm.num_capture_input_channels_
                    THEN /\ calls'[2] = <<"capture_audio", "Mix">>
                         /\ Len(mixes) = 1
                         /\ apm'.capture_audio_.num_channels
                              = apm.num_capture_output_channels_
                         /\ frame'._audioChannel
                              = apm.num_capture_output_channels_
                    ELSE /\ mixes = << >>
                         /\ frame'._audioChannel = args'.frame._audioChannel
        /\ ( /\ op' \in StreamCalls /\ ncalls' = ncalls + 1
             /\ args'.frame # NULL )
           => /\ frame'._frequencyInHz = args'.frame._frequencyInHz
              /\ frame'._payloadDataLengthInSamples
                   = args'.frame._payloadDataLengthInSamples
      ]_vars

\* With stereo in and mono out, a ProcessStream of a stereo frame failed in
\* echo cancellation: the frame it returns is mono and its payload is the
\* one it came with.
C18_Witness ==
    /\ op = "ProcessStream"
    /\ ret \in {Err(e) : e \in ComponentErrors}
    /\ args.res[<<"echo_cancellation", "ProcessCaptureAudio">>] # kNoError
    /\ args.frame._audioChannel = 2
    /\ frame._audioChannel = 1
    /\ frame._payloadData = args.frame._payloadData
    /\ <<"capture_audio", "Mix">> \in Range(calls)

----------------------------------------------------------------------------
(* Failures of StartDebugRecording, and the number of records.             *)

\* What the file holds after WriteText("%s\n", kMagicNumber).
MagicLine == << <<"magic", kMagicNumber>> >>

\* The last n items of the debug file.
LastItems(n) ==
    SubSeq(debug_file.data, Len(debug_file.data) - n + 1,
           Len(debug_file.data))

\* C19: a StartDebugRecording that returns kFileError because OpenFile or
\* the write of the magic line failed has closed the file; one that returns
\* kFileError because the write of the Initialize record's tag or of its
\* sample rate failed has not: the file is open and holds the magic line,
\* followed by the tag if it was the rate that failed.  A later stream call
\* that passes validation and its writes appends its record to whatever the
\* open file holds.
C19_StartFailureLeavesTraceOpen ==
    /\ ( op = "StartDebugRecording" /\ ret = Err(kFileError) )
       => /\ args.fail \in {"OpenFile", "WriteText"} => ~debug_file.open
          /\ args.fail = "Write_event"
               => debug_file = [open |-> TRUE, data |-> MagicLine]
          /\ args.fail = "Write_rate"
               => debug_file =
                    [open |-> TRUE,
                     data |-> Append(MagicLine, <<"event", kInitializeEvent>>)]
    /\ ( /\ op \in StreamCalls /\ debug_file.open
         /\ ret \notin ValidationErrors \cup {Err(kFileError)} )
       => /\ Len(debug_file.data) > RecordLen
          /\ LastItems(RecordLen) = EventRecord(EventOf(op), args.frame)

\* StartDebugRecording failed writing the tag of the Initialize record, and
\* the AnalyzeReverseStream after it appended its Render record behind the
\* magic line.
C19_Witness ==
    /\ op = "AnalyzeReverseStream"
    /\ ret = Err(kNoError)
    /\ debug_file.open
    /\ debug_file.data = MagicLine \o EventRecord(kRenderEvent, args.frame)

\* The number of complete stream records in a trace: every record ends
\* with its payload.
NumRecords(data) ==
    Cardinality({i \in DOMAIN data : data[i][1] = "_payloadData"})

\* C20: while the trace stays open, a call adds a record to it if and only
\* if it is a stream call that passes validation and completes its writes,
\* and such a call adds exactly one complete record, also when it then
\* fails in a component; so the number of records is the number of these
\* calls, not the number of successful stream calls.
C20_RecordPerProcessedCall ==
    [][ /\ ( /\ debug_file.open /\ debug_file'.open
             /\ ~IsCall("StartDebugRecording") )
           => NumRecords(debug_file'.data) =
                NumRecords(debug_file.data) + (IF Processed THEN 1 ELSE 0)
        /\ ( /\ Processed /\ debug_file.open
             /\ ret' # Err(kNoError) )
           => debug_file'.data = debug_file.data \o RecordOfCall
      ]_vars

\* The only stream call since recording started failed in a component, and
\* the trace holds its record: one record, no successful stream call.
C20_Witness ==
    /\ ncalls = 2
    /\ op = "ProcessStream"
    /\ ret \in {Err(e) : e \in ComponentErrors}
    /\ debug_file.open
    /\ SubSeq(debug_file.data, 1, 3) = TraceHeader(apm.sample_rate_hz_)
    /\ NumRecords(debug_file.data) = 1

====
